---- MODULE Spec2Model ----
(***************************************************************************)
(* Crawl frontier and content pipeline of src/file_api.py: the Flask       *)
(* handlers /recursive-crawl, /process-all-links and /realtime-stats over  *)
(* the four MongoDB collections Links_to_scrap, Processed_Links,           *)
(* Content_Links and scrapped_text.                                        *)
(*                                                                         *)
(* SpecCrawl, Spec, SpecDeep and SpecExtract serve one request after the   *)
(* other; SpecOverlap serves /recursive-crawl requests on two threads at   *)
(* once, and SpecPipeline /recursive-crawl and /process-all-links.         *)
(*                                                                         *)
(* A collection is the sequence of its documents in insertion order; a     *)
(* document's _id is its position.  Timestamps are left out: no handler    *)
(* reads them.  The web is an adversary: every fetch either fails or       *)
(* returns any list of anchors.                                            *)
(***************************************************************************)
EXTENDS Integers, Sequences, FiniteSets, TLC

(***************************************************************************)
(* Bounds of the model.                                                    *)
(***************************************************************************)
\* the longest list of <a href> elements a fetched page carries
MaxAnchors == 2
\* the largest depth budget a request carries
MaxDepth == 3
\* the smallest depth budget a request carries is -MinDepthBelow
MinDepthBelow == 0

(***************************************************************************)
(* The URLs of the model: each class the classifier tells apart has one,   *)
(* and the class of plain pages has two.                                   *)
(***************************************************************************)
PlainUrl == "https://a.test/p/7f2a"
OtherUrl == "https://b.test/q/19c4"
BlogUrl  == "https://a.test/blog/my-post"
WikiUrl  == "https://en.wikipedia.org/wiki/Crawler"
FileUrl  == "https://en.wikipedia.org/wiki/File:Logo.png"
BadUrl   == "http://bad host/"
FragmentHref == "#top"

Urls == {PlainUrl, BlogUrl, WikiUrl, FileUrl, BadUrl}
\* what an anchor's href resolves to; FragmentHref stands for the skipped hrefs
Hrefs == Urls \cup {FragmentHref}

\* the value of a field the document does not carry, and of a None local
Absent == "<absent>"
NoError == ""

(***************************************************************************)
(* URL classifier.                                                         *)
(***************************************************************************)
\* validators.url(url), False on any exception
is_valid_url(u) == u \in {PlainUrl, OtherUrl, BlogUrl, WikiUrl, FileUrl}

\* no blocked extension at the end, no login/cart/api... as last path segment
is_valid_content_url(u) == u \notin {FileUrl}

\* some text indicator ('blog', 'post', 'wiki', ...) occurs in url.lower()
contains_text_in_url(u) == u \in {BlogUrl, WikiUrl, FileUrl}

\* 'wikipedia.org' in url or 'wiki' in url.lower()
is_wiki_url(u) == u \in {WikiUrl, FileUrl}

\* 'wikipedia.org/wiki/' in full_url and none of the special-page markers is
wiki_article_url(u) == u \in {WikiUrl}

\* href is empty or starts with javascript:, mailto:, tel: or #
skipped_href(href) == href = FragmentHref

(***************************************************************************)
(* State.                                                                  *)
(***************************************************************************)
\* the request-handling threads; the sequential server runs on the first
Procs == {1, 2}
MainProc == CHOOSE p \in Procs : \A q \in Procs : p <= q

VARIABLES
  links_collection,      \* Links_to_scrap: the frontier (LinkEntry)
  processed_collection,  \* Processed_Links: the content queue (ContentTask)
  source_collection,     \* Content_Links: the crawl snapshots
  content_collection,    \* scrapped_text: the scraped documents
  pc,                    \* where each thread is in its handler
  handler,               \* the route each thread is serving
  request,               \* the body of the request a thread is serving
  is_collection_empty,   \* recursive_crawl: local is_collection_empty
  url,                   \* recursive_crawl: local url
  process_depth,         \* recursive_crawl: local process_depth
  range_index,           \* recursive_crawl: next value of range(process_depth)
  link_doc,              \* recursive_crawl: local link_doc of the last step
  processed_bound,       \* recursive_crawl: local processed_collection is bound
  fetched,               \* status of the last fetch the thread made
  steps,                 \* crawl steps (candidate fetched) of this invocation
  unprocessed_links,     \* process_all_links: local unprocessed_links
  unprocessed_count,     \* process_all_links: local unprocessed_count
  link_index,            \* process_all_links: position of the for loop
  results,               \* process_all_links: local results
  stats,                 \* realtime_stats: local response (the 'data' object)
  todo,                  \* recursive_crawl: links the loop of line 356 has left
  found,                 \* recursive_crawl: result of the last find_one by link
  all_links,             \* recursive_crawl: local all_links, where it is kept
  started,               \* requests the server has begun to serve
  response               \* the response the thread returns

collections ==
  <<links_collection, processed_collection, source_collection, content_collection>>
crawl_locals == <<is_collection_empty, url, process_depth, range_index, link_doc, processed_bound, steps>>
pal_locals == <<unprocessed_links, unprocessed_count, link_index, results>>
step_locals == <<todo, found>>
vars == <<links_collection, processed_collection, source_collection,
          content_collection, pc, handler, request, is_collection_empty, url,
          process_depth, range_index,
          link_doc, processed_bound, fetched, steps, unprocessed_links,
          unprocessed_count, link_index, results, stats, todo, found, all_links, started,
          response>>

NoDoc == [_id |-> 0, link |-> Absent, depth |-> 0, source_url |-> Absent]
NoRequest == [url |-> Absent, has_depth |-> FALSE, depth |-> 0]
NoResults == [reported |-> FALSE, total_unprocessed |-> 0, processed |-> 0,
              success |-> 0, failed |-> 0]
NoStats == [reported |-> FALSE, Links |-> <<>>, Total_Number_of_Links |-> 0,
            Scrapped_Links |-> 0, Pending_Links |-> 0]
NoResponse == [code |-> 0, status |-> Absent]

\* the bodies a /recursive-crawl request can carry: {url?, depth?}
DepthInputs == (0 - MinDepthBelow)..MaxDepth
RequestBodies ==
  {[url |-> u, has_depth |-> FALSE, depth |-> 0] : u \in Urls \cup {Absent}}
  \cup {[url |-> u, has_depth |-> TRUE, depth |-> d] :
          u \in Urls \cup {Absent}, d \in DepthInputs}

\* what requests.get + raise_for_status + BeautifulSoup give for one fetch
SeqsUpTo(S, n) == UNION {[1..k -> S] : k \in 0..n}
FetchResults ==
  {[status |-> "ok", anchors |-> a] : a \in SeqsUpTo(Hrefs, MaxAnchors)}
  \cup {[status |-> "request_error", anchors |-> <<>>],
        [status |-> "error", anchors |-> <<>>]}

Init ==
  /\ links_collection = <<>>
  /\ processed_collection = <<>>
  /\ source_collection = <<>>
  /\ content_collection = <<>>
  /\ pc = [p \in Procs |-> "idle"]
  /\ handler = [p \in Procs |-> "none"]
  /\ is_collection_empty = [p \in Procs |-> FALSE]
  /\ request = [p \in Procs |-> NoRequest]
  /\ url = [p \in Procs |-> Absent]
  /\ process_depth = [p \in Procs |-> 1]
  /\ range_index = [p \in Procs |-> 0]
  /\ link_doc = [p \in Procs |-> NoDoc]
  /\ processed_bound = [p \in Procs |-> FALSE]
  /\ fetched = [p \in Procs |-> Absent]
  /\ steps = [p \in Procs |-> 0]
  /\ unprocessed_links = [p \in Procs |-> <<>>]
  /\ unprocessed_count = [p \in Procs |-> 0]
  /\ link_index = [p \in Procs |-> 1]
  /\ results = [p \in Procs |-> NoResults]
  /\ stats = [p \in Procs |-> NoStats]
  /\ todo = [p \in Procs |-> <<>>]
  /\ found = [p \in Procs |-> FALSE]
  /\ all_links = [p \in Procs |-> <<>>]
  /\ started = 0
  /\ response = [p \in Procs |-> NoResponse]

(***************************************************************************)
(* Store queries.                                                          *)
(***************************************************************************)
\* the _ids of the documents of coll whose link is l
ids_with_link(coll, l) == {i \in DOMAIN coll : coll[i].link = l}

\* uncrawled_ids that also matches the entries crawled with an error
uncrawled_or_failed_ids(coll) ==
  {i \in DOMAIN coll : ~coll[i].is_crawled \/ coll[i].error # NoError}

\* {'is_crawled': {'$ne': True}}
uncrawled_ids(coll) == {i \in DOMAIN coll : ~coll[i].is_crawled}

\* {'is_processed': False}
unprocessed_ids(coll) == {i \in DOMAIN coll : ~coll[i].is_processed}

\* find_one(filter): the documents the store may return, none when ids is empty
find_one(ids) == ids

\* insert_one(doc)
insert_one(coll, doc) == Append(coll, doc)

(***************************************************************************)
(* Documents.                                                              *)
(***************************************************************************)
\* the LinkEntry of the seed (lines 226-231): no source_url, depth 0
seed_doc(u) ==
  [link |-> u, is_crawled |-> FALSE, depth |-> 0, source_url |-> Absent,
   error |-> NoError]

\* the LinkEntry of a discovered link (lines 363-369)
crawl_doc(link, url_to_crawl, current_depth) ==
  [link |-> link, is_crawled |-> FALSE, depth |-> current_depth + 1,
   source_url |-> url_to_crawl, error |-> NoError]

\* the ContentTask of a discovered link (lines 377-384)
process_doc(link, url_to_crawl, current_depth, is_wiki) ==
  [link |-> link, is_processed |-> FALSE, source_url |-> url_to_crawl,
   has_text_in_url |-> (is_wiki \/ contains_text_in_url(link)),
   depth |-> current_depth + 1, error |-> NoError]

\* own_process_doc without the 'seed_url' tag of line 401
own_process_doc_untagged(doc, current_depth, is_wiki) ==
  [link |-> doc.link, is_processed |-> FALSE,
   source_url |-> IF doc.source_url = Absent THEN "unknown" ELSE doc.source_url,
   has_text_in_url |-> (is_wiki \/ contains_text_in_url(doc.link)),
   depth |-> current_depth, error |-> NoError]

\* the ContentTask of the crawled page itself (lines 397-404)
own_process_doc(doc, current_depth, is_wiki) ==
  [link |-> doc.link, is_processed |-> FALSE,
   source_url |-> IF current_depth = 0 THEN "seed_url"
                  ELSE IF doc.source_url = Absent THEN "unknown"
                  ELSE doc.source_url,
   has_text_in_url |-> (is_wiki \/ contains_text_in_url(doc.link)),
   depth |-> current_depth, error |-> NoError]

\* source_document of valid_urls as the loop of line 317 left it, each link
\* as often as the page has it
source_document_repeating(url_to_crawl, unique_links, current_depth) ==
  [source_url |-> url_to_crawl, uniqueLinks |-> unique_links \o unique_links,
   depth |-> current_depth]

\* the CrawlSnapshot (lines 344-349)
source_document(url_to_crawl, unique_links, current_depth) ==
  [source_url |-> url_to_crawl, uniqueLinks |-> unique_links,
   depth |-> current_depth]

\* a document as find/find_one return it: with its _id
with_id(coll, i) ==
  [_id |-> i, link |-> coll[i].link, depth |-> coll[i].depth,
   source_url |-> coll[i].source_url]

(***************************************************************************)
(* Link extraction of recursive_crawl (lines 295-340).                     *)
(***************************************************************************)
\* whether the loop appends full_url to valid_urls
keeps_url(full_url, is_wiki) ==
  IF is_wiki THEN wiki_article_url(full_url)
  ELSE is_valid_url(full_url) /\ is_valid_content_url(full_url)

\* valid_urls: the kept hrefs, in document order, repeats included
valid_urls(anchors, is_wiki) ==
  LET appended(href) == ~skipped_href(href) /\ keeps_url(href, is_wiki)
  IN SelectSeq(anchors, appended)

\* set(valid_urls)
unique_links_of(anchors, is_wiki) ==
  LET v == valid_urls(anchors, is_wiki) IN {v[i] : i \in DOMAIN v}

\* lines 271-340 for the page at link: what the fetch ended in, and
\* set(valid_urls) of the anchors it returned
extractions ==
  {[link |-> link, status |-> fr.status,
    unique_links |-> unique_links_of(fr.anchors, is_wiki_url(link))] :
     link \in Urls, fr \in FetchResults}

\* list(set(...)): the orders the set may be iterated in
Orderings(S) ==
  {f \in [1..Cardinality(S) -> S] : \A i, j \in DOMAIN f : f[i] = f[j] => i = j}

(***************************************************************************)
(* Steps 4 and 5 of a crawl step (lines 356-386).                          *)
(***************************************************************************)
\* add_to_crawl without the find_one of line 361
add_to_crawl_unchecked(lc, link, url_to_crawl, current_depth) ==
  insert_one(lc, crawl_doc(link, url_to_crawl, current_depth))

\* lines 361-371: add link to Links_to_scrap unless a document has it
add_to_crawl(lc, link, url_to_crawl, current_depth) ==
  IF ids_with_link(lc, link) = {}
  THEN insert_one(lc, crawl_doc(link, url_to_crawl, current_depth))
  ELSE lc

\* line 358
should_process(link, is_wiki) == is_wiki \/ contains_text_in_url(link)

\* add_to_process without the test of line 374: every link is queued
add_to_process_any_link(pcoll, link, url_to_crawl, current_depth, is_wiki) ==
  IF ids_with_link(pcoll, link) = {}
  THEN insert_one(pcoll, process_doc(link, url_to_crawl, current_depth, is_wiki))
  ELSE pcoll

\* lines 374-386: add a content link to Processed_Links unless a document has it
add_to_process(pcoll, link, url_to_crawl, current_depth, is_wiki) ==
  IF should_process(link, is_wiki) /\ ids_with_link(pcoll, link) = {}
  THEN insert_one(pcoll, process_doc(link, url_to_crawl, current_depth, is_wiki))
  ELSE pcoll

\* the for loop of line 356 over the links in the order given
RECURSIVE add_all_to_crawl(_, _, _, _)
add_all_to_crawl(lc, order, url_to_crawl, current_depth) ==
  IF order = <<>> THEN lc
  ELSE add_all_to_crawl(add_to_crawl(lc, Head(order), url_to_crawl, current_depth),
                        Tail(order), url_to_crawl, current_depth)

RECURSIVE add_all_to_process(_, _, _, _, _)
add_all_to_process(pcoll, order, url_to_crawl, current_depth, is_wiki) ==
  IF order = <<>> THEN pcoll
  ELSE add_all_to_process(
         add_to_process(pcoll, Head(order), url_to_crawl, current_depth, is_wiki),
         Tail(order), url_to_crawl, current_depth, is_wiki)

\* lines 388-392 and 409-416, 421-428: update_one({'_id': ...}, {'$set': ...})
mark_crawled(lc, id, error_msg) ==
  [lc EXCEPT ![id].is_crawled = TRUE, ![id].error = error_msg]

\* add_own_task without the find_one of line 395
add_own_task_unchecked(pcoll, doc, current_depth, is_wiki) ==
  insert_one(pcoll, own_process_doc(doc, current_depth, is_wiki))

\* lines 394-405: the crawled URL gets a ContentTask unless a document has it
add_own_task(pcoll, doc, current_depth, is_wiki) ==
  IF ids_with_link(pcoll, doc.link) = {}
  THEN insert_one(pcoll, own_process_doc(doc, current_depth, is_wiki))
  ELSE pcoll

\* the error message of the except branches (lines 408, 420)
crawl_error_msg(status) ==
  IF status = "request_error" THEN "Request error" ELSE "Error"

(***************************************************************************)
(* POST /recursive-crawl (lines 182-457).                                  *)
(***************************************************************************)
\* no_documents as a count of the uncrawled documents
no_uncrawled_documents(lc) == uncrawled_ids(lc) = {}

\* line 198: count_documents({}) == 0
no_documents(lc) == Len(lc) = 0

\* local_url with line 208 outside the test of line 205
local_url_always(lc, data) == data.url

\* lines 202-208: local url after the request is read
local_url(lc, data) == IF no_documents(lc) THEN data.url ELSE Absent

\* local_process_depth with lines 211-215 outside the test of line 205
local_process_depth_always(lc, data) == IF data.has_depth THEN data.depth ELSE 1

\* lines 203-215: local process_depth after the request is read
local_process_depth(lc, data) ==
  IF no_documents(lc) /\ data.url # Absent /\ data.has_depth
  THEN data.depth ELSE 1

\* lines 205-237: whether the request is answered 400
rejects_request(lc, data) ==
  no_documents(lc) /\ (data.url = Absent \/ ~is_valid_url(data.url))

\* seeded_links with the insert of line 226 ahead of the check of line 218
seeded_links_unvalidated(lc, data) ==
  IF no_documents(lc) /\ data.url # Absent THEN insert_one(lc, seed_doc(data.url))
  ELSE lc

\* lines 225-231: the frontier after the request is read
seeded_links(lc, data) ==
  IF no_documents(lc) /\ data.url # Absent /\ is_valid_url(data.url)
  THEN insert_one(lc, seed_doc(data.url))
  ELSE lc

\* lines 188-237: the handler up to the loop
recursive_crawl_begin(self, data) ==
  /\ pc[self] = "idle"
  /\ handler' = [handler EXCEPT ![self] = "recursive_crawl"]
  /\ request' = [request EXCEPT ![self] = data]
  /\ is_collection_empty' =
       [is_collection_empty EXCEPT ![self] = no_documents(links_collection)]
  /\ url' = [url EXCEPT ![self] = local_url(links_collection, data)]
  /\ process_depth' =
       [process_depth EXCEPT ![self] = local_process_depth(links_collection, data)]
  /\ links_collection' = seeded_links(links_collection, data)
  /\ IF rejects_request(links_collection, data)
     THEN /\ pc' = [pc EXCEPT ![self] = "done"]
          /\ response' = [response EXCEPT ![self] = [code |-> 400, status |-> "error"]]
     ELSE /\ pc' = [pc EXCEPT ![self] = "crawl_loop"]
          /\ UNCHANGED response
  /\ UNCHANGED <<stats, step_locals, all_links, started, processed_collection, source_collection, content_collection,
                 range_index, link_doc, processed_bound, fetched, steps,
                 pal_locals>>

\* lines 242-248: the _ids the first query of an iteration matches
query_ids(lc, u, current_depth) ==
  IF u # Absent /\ current_depth = 0
  THEN {i \in uncrawled_ids(lc) : lc[i].link = u}
  ELSE {i \in uncrawled_ids(lc) : lc[i].depth = current_depth}

\* candidate_ids without the query of lines 242-250: any uncrawled document
candidate_ids_any(lc, u, current_depth) == find_one(uncrawled_ids(lc))

\* candidate_ids without the fallback of lines 252-254
candidate_ids_no_fallback(lc, u, current_depth) ==
  find_one(query_ids(lc, u, current_depth))

\* lines 250-254: the documents link_doc may be; none: no uncrawled link is left
candidate_ids(lc, u, current_depth) ==
  IF query_ids(lc, u, current_depth) # {}
  THEN find_one(query_ids(lc, u, current_depth))
  ELSE find_one(uncrawled_ids(lc))

\* lines 256-261: no link_doc, the handler returns from inside the loop
crawl_no_more_links(self) ==
  /\ pc[self] = "crawl_loop"
  /\ range_index[self] < process_depth[self]
  /\ candidate_ids(links_collection, url[self], range_index[self]) = {}
  /\ pc' = [pc EXCEPT ![self] = "done"]
  /\ response' = [response EXCEPT ![self] = [code |-> 200, status |-> "info"]]
  /\ UNCHANGED <<stats, step_locals, all_links, started, collections, handler, request, crawl_locals, fetched, pal_locals>>

\* stored_depth without line 264: current_depth is still the loop's index
loop_index_depth(doc, index) == index

\* line 264: current_depth is rebound to the depth stored on link_doc
stored_depth(doc, index) == doc.depth

\* lines 339-405: the try block after a successful fetch and parse
\* unique_links is set(valid_urls), order is list(set(valid_urls)): the list
\* the snapshot stores and the loop of line 356 goes through
crawl_page(self, id, unique_links, order) ==
  LET doc == with_id(links_collection, id)
      is_wiki == is_wiki_url(doc.link)
      current_depth == stored_depth(doc, range_index[self])
      added == add_all_to_crawl(links_collection, order, doc.link, current_depth)
      queued == add_all_to_process(processed_collection, order, doc.link,
                                   current_depth, is_wiki)
  IN /\ source_collection' =
          insert_one(source_collection,
                     source_document(doc.link, order, current_depth))
     /\ links_collection' = mark_crawled(added, id, NoError)
     /\ processed_collection' = add_own_task(queued, doc, current_depth, is_wiki)

\* crawl_fetch_failed with no update_one: the except branch only continues
crawl_fetch_failed_unmarked(self, id, status) ==
  UNCHANGED <<links_collection, processed_collection, source_collection>>

\* crawl_fetch_failed with the insert of lines 394-405 also after a failure
crawl_fetch_failed_with_own_task(self, id, status) ==
  /\ links_collection' = mark_crawled(links_collection, id, crawl_error_msg(status))
  /\ processed_collection' =
       add_own_task(processed_collection, with_id(links_collection, id),
                    links_collection[id].depth, is_wiki_url(links_collection[id].link))
  /\ UNCHANGED source_collection

\* lines 407-429: the except branches, then continue
crawl_fetch_failed(self, id, status) ==
  /\ links_collection' = mark_crawled(links_collection, id, crawl_error_msg(status))
  /\ UNCHANGED <<processed_collection, source_collection>>

\* lines 240-429: one iteration of the loop that finds a link_doc
\* page is what the fetch and the extraction gave
crawl_iteration(self, id, page) ==
  /\ pc[self] = "crawl_loop"
  /\ range_index[self] < process_depth[self]
  /\ id \in candidate_ids(links_collection, url[self], range_index[self])
  /\ link_doc' = [link_doc EXCEPT ![self] = with_id(links_collection, id)]
  /\ processed_bound' = [processed_bound EXCEPT ![self] = TRUE]
  /\ fetched' = [fetched EXCEPT ![self] = page.status]
  /\ steps' = [steps EXCEPT ![self] = @ + 1]
  /\ range_index' = [range_index EXCEPT ![self] = @ + 1]
  /\ IF page.status = "ok"
     THEN \E order \in Orderings(page.unique_links) :
            crawl_page(self, id, page.unique_links, order)
     ELSE crawl_fetch_failed(self, id, page.status)
  /\ UNCHANGED <<stats, step_locals, started, content_collection, pc, handler, request, is_collection_empty,
                 url, process_depth, pal_locals, response>>

\* one iteration of the loop; all_links is dropped with the parsed page
crawl_step(self, id, page) ==
  crawl_iteration(self, id, page) /\ UNCHANGED all_links

\* one iteration of the loop, told by what the fetch returned: the anchors
\* of line 285 are kept to be looked at
crawl_step_parsed(self, id, fr) ==
  /\ id \in DOMAIN links_collection
  /\ crawl_iteration(self, id,
        [link |-> links_collection[id].link, status |-> fr.status,
         unique_links |->
           unique_links_of(fr.anchors, is_wiki_url(links_collection[id].link))])
  /\ all_links' = [all_links EXCEPT ![self] = fr.anchors]

\* lines 431-454: the statistics after the loop; processed_collection is a
\* local first assigned inside the loop (line 265)
crawl_return(self) ==
  /\ pc[self] = "crawl_loop"
  /\ range_index[self] >= process_depth[self]
  /\ pc' = [pc EXCEPT ![self] = "done"]
  /\ response' = [response EXCEPT ![self] =
       IF processed_bound[self] THEN [code |-> 200, status |-> "success"]
       ELSE [code |-> 500, status |-> "error"]]
  /\ UNCHANGED <<stats, step_locals, all_links, started, collections, handler, request, crawl_locals, fetched, pal_locals>>

\* the response is sent and the handler's locals are gone
handler_exit(self) ==
  /\ pc[self] = "done"
  /\ pc' = [pc EXCEPT ![self] = "idle"]
  /\ handler' = [handler EXCEPT ![self] = "none"]
  /\ request' = [request EXCEPT ![self] = NoRequest]
  /\ is_collection_empty' = [is_collection_empty EXCEPT ![self] = FALSE]
  /\ url' = [url EXCEPT ![self] = Absent]
  /\ process_depth' = [process_depth EXCEPT ![self] = 1]
  /\ range_index' = [range_index EXCEPT ![self] = 0]
  /\ link_doc' = [link_doc EXCEPT ![self] = NoDoc]
  /\ processed_bound' = [processed_bound EXCEPT ![self] = FALSE]
  /\ fetched' = [fetched EXCEPT ![self] = Absent]
  /\ steps' = [steps EXCEPT ![self] = 0]
  /\ unprocessed_links' = [unprocessed_links EXCEPT ![self] = <<>>]
  /\ unprocessed_count' = [unprocessed_count EXCEPT ![self] = 0]
  /\ link_index' = [link_index EXCEPT ![self] = 1]
  /\ results' = [results EXCEPT ![self] = NoResults]
  /\ stats' = [stats EXCEPT ![self] = NoStats]
  /\ todo' = [todo EXCEPT ![self] = <<>>]
  /\ found' = [found EXCEPT ![self] = FALSE]
  /\ all_links' = [all_links EXCEPT ![self] = <<>>]
  /\ response' = [response EXCEPT ![self] = NoResponse]
  /\ UNCHANGED <<collections, started>>

(***************************************************************************)
(* POST /process-all-links (lines 459-548) and scrape_single_link          *)
(* (lines 550-690).                                                        *)
(***************************************************************************)
\* what the fetch and the extraction of scrape_single_link end in
ScrapeStatuses == {"ok", "request_error", "error"}

\* pending_list without the filter: list(find({}))
every_task_list(pcoll, i) == [k \in 1..Len(pcoll) |-> with_id(pcoll, k)]

\* list(find({'is_processed': False})): the pending tasks in natural order
RECURSIVE pending_list(_, _)
pending_list(pcoll, i) ==
  IF i > Len(pcoll) THEN <<>>
  ELSE IF ~pcoll[i].is_processed
       THEN <<with_id(pcoll, i)>> \o pending_list(pcoll, i + 1)
       ELSE pending_list(pcoll, i + 1)

\* lines 473-492: the count, the early return, the list and the empty tallies
process_all_links_begin(self) ==
  /\ pc[self] = "idle"
  /\ handler' = [handler EXCEPT ![self] = "process_all_links"]
  /\ unprocessed_count' =
       [unprocessed_count EXCEPT ![self] = Cardinality(unprocessed_ids(processed_collection))]
  /\ IF unprocessed_ids(processed_collection) = {}
     THEN /\ pc' = [pc EXCEPT ![self] = "done"]
          /\ response' = [response EXCEPT ![self] = [code |-> 200, status |-> "complete"]]
          /\ UNCHANGED <<unprocessed_links, results>>
     ELSE /\ pc' = [pc EXCEPT ![self] = "pal_loop"]
          /\ unprocessed_links' =
               [unprocessed_links EXCEPT ![self] = pending_list(processed_collection, 1)]
          /\ results' = [results EXCEPT ![self] =
               [reported |-> FALSE,
                total_unprocessed |-> Cardinality(unprocessed_ids(processed_collection)),
                processed |-> 0, success |-> 0, failed |-> 0]]
          /\ UNCHANGED response
  /\ UNCHANGED <<stats, step_locals, all_links, started, collections, request, crawl_locals, fetched, link_index>>

\* lines 620-628: the ScrapedDocument
content_document(doc) ==
  [content_link |-> doc.link, link_id |-> doc._id, source_url |-> doc.source_url,
   depth |-> doc.depth]

\* lines 648, 669
scrape_error_msg(status) ==
  IF status = "request_error" THEN "Request error" ELSE "Processing error"

\* lines 634-637, 651-660, 673-683: update_one({'_id': ...}, {'$set': ...})
mark_processed(pcoll, id, error_msg) ==
  [pcoll EXCEPT ![id].is_processed = TRUE, ![id].error = error_msg]

\* scraped_tasks without the update_one of line 634 on the success path
scraped_tasks_unmarked_on_success(pcoll, doc, status) ==
  IF status = "ok" THEN pcoll
  ELSE mark_processed(pcoll, doc._id, scrape_error_msg(status))

\* scrape_single_link: Processed_Links after the call
scraped_tasks(pcoll, doc, status) ==
  IF status = "ok" THEN mark_processed(pcoll, doc._id, NoError)
  ELSE mark_processed(pcoll, doc._id, scrape_error_msg(status))

\* scraped_content with the insert of line 631 ahead of the fetch
scraped_content_always(ccoll, doc, status) == insert_one(ccoll, content_document(doc))

\* scrape_single_link: scrapped_text after the call
scraped_content(ccoll, doc, status) ==
  IF status = "ok" THEN insert_one(ccoll, content_document(doc)) ELSE ccoll

\* tallied with line 529 inside the success branch
tallied_in_success_branch(res, status) ==
  [res EXCEPT !.success = IF status = "ok" THEN @ + 1 ELSE @,
              !.failed = IF status = "ok" THEN @ ELSE @ + 1,
              !.processed = IF status = "ok" THEN @ + 1 ELSE @]

\* lines 503-529: the tallies after one task
tallied(res, status) ==
  [res EXCEPT !.success = IF status = "ok" THEN @ + 1 ELSE @,
              !.failed = IF status = "ok" THEN @ ELSE @ + 1,
              !.processed = @ + 1]

\* lines 495-529: one iteration of the loop over unprocessed_links
process_link(self, status) ==
  /\ pc[self] = "pal_loop"
  /\ link_index[self] <= Len(unprocessed_links[self])
  /\ LET doc == unprocessed_links[self][link_index[self]]
     IN /\ processed_collection' = scraped_tasks(processed_collection, doc, status)
        /\ content_collection' = scraped_content(content_collection, doc, status)
  /\ fetched' = [fetched EXCEPT ![self] = status]
  /\ results' = [results EXCEPT ![self] = tallied(@, status)]
  /\ link_index' = [link_index EXCEPT ![self] = @ + 1]
  /\ UNCHANGED <<stats, step_locals, all_links, started, links_collection, source_collection, pc, handler, request,
                 crawl_locals, unprocessed_links, unprocessed_count, response>>

\* lines 531-537: the results are returned
process_all_links_return(self) ==
  /\ pc[self] = "pal_loop"
  /\ link_index[self] > Len(unprocessed_links[self])
  /\ pc' = [pc EXCEPT ![self] = "done"]
  /\ results' = [results EXCEPT ![self].reported = TRUE]
  /\ response' = [response EXCEPT ![self] = [code |-> 200, status |-> "complete"]]
  /\ UNCHANGED <<stats, step_locals, all_links, started, collections, handler, request, crawl_locals, fetched,
                 unprocessed_links, unprocessed_count, link_index>>

(***************************************************************************)
(* GET /realtime-stats (lines 692-750).                                    *)
(***************************************************************************)
\* lines 707-733: the 'data' object of the response
stats_data(lc, pcoll, ccoll) ==
  [reported |-> TRUE,
   Links |-> [i \in DOMAIN lc |-> lc[i].link],
   Total_Number_of_Links |-> Len(pcoll),
   Scrapped_Links |-> Len(ccoll),
   Pending_Links |-> Cardinality(unprocessed_ids(pcoll))]

\* realtime_stats that keeps the totals it computed as a document of
\* scrapped_text
realtime_stats_stored(self, raised) ==
  /\ pc[self] = "idle"
  /\ handler' = [handler EXCEPT ![self] = "realtime_stats"]
  /\ pc' = [pc EXCEPT ![self] = "done"]
  /\ stats' = [stats EXCEPT ![self] =
       stats_data(links_collection, processed_collection, content_collection)]
  /\ content_collection' =
       insert_one(content_collection,
                  [content_link |-> Absent, link_id |-> 0, source_url |-> Absent,
                   depth |-> 0])
  /\ response' = [response EXCEPT ![self] = [code |-> 200, status |-> "success"]]
  /\ UNCHANGED <<links_collection, processed_collection, source_collection,
                 request, crawl_locals, fetched, pal_locals, step_locals, all_links,
                 started>>

\* lines 695-750: the whole handler; raised: a store call raised (line 741)
realtime_stats(self, raised) ==
  /\ pc[self] = "idle"
  /\ handler' = [handler EXCEPT ![self] = "realtime_stats"]
  /\ pc' = [pc EXCEPT ![self] = "done"]
  /\ IF raised
     THEN /\ response' = [response EXCEPT ![self] = [code |-> 500, status |-> "error"]]
          /\ UNCHANGED stats
     ELSE /\ response' = [response EXCEPT ![self] = [code |-> 200, status |-> "success"]]
          /\ stats' = [stats EXCEPT ![self] =
               stats_data(links_collection, processed_collection, content_collection)]
  /\ UNCHANGED <<collections, request, crawl_locals, fetched, pal_locals,
                 step_locals, all_links, started>>

(***************************************************************************)
(* The sequential server: one request at a time, each run to completion.   *)
(*                                                                         *)
(* SpecCrawl is the crawl handler alone under every request body.  Spec is *)
(* the whole pipeline; there a client that resumes a non-empty frontier    *)
(* sends the empty body, the handler reading no field of the body then     *)
(* (lines 205-237 are all under is_collection_empty).                      *)
(***************************************************************************)
crawl_loop_steps(self) ==
  \/ crawl_no_more_links(self)
  \/ \E id \in DOMAIN links_collection, page \in extractions :
       page.link = links_collection[id].link /\ crawl_step(self, id, page)
  \/ crawl_return(self)

NextCrawl ==
  \/ \E data \in RequestBodies : recursive_crawl_begin(MainProc, data)
  \/ crawl_loop_steps(MainProc)
  \/ handler_exit(MainProc)

SpecCrawl == Init /\ [][NextCrawl]_vars

Next ==
  \/ \E data \in RequestBodies :
       /\ no_documents(links_collection) \/ data = NoRequest
       /\ recursive_crawl_begin(MainProc, data)
  \/ crawl_loop_steps(MainProc)
  \/ process_all_links_begin(MainProc)
  \/ \E status \in ScrapeStatuses : process_link(MainProc, status)
  \/ process_all_links_return(MainProc)
  \/ \E raised \in BOOLEAN : realtime_stats(MainProc, raised)
  \/ handler_exit(MainProc)

Spec == Init /\ [][Next]_vars

(***************************************************************************)
(* Crawls that go deep: the pages of a site with two plain pages, so that  *)
(* uncrawled entries of several depths stand in the frontier together;     *)
(* every request asks for the largest budget.                              *)
(***************************************************************************)
DeepUrls == {PlainUrl, OtherUrl, BlogUrl, WikiUrl}
DeepBodies ==
  {NoRequest} \cup
  {[url |-> u, has_depth |-> TRUE, depth |-> MaxDepth] : u \in {PlainUrl, Absent}}
deep_extractions ==
  {[link |-> link, status |-> "ok",
    unique_links |-> unique_links_of(a, is_wiki_url(link))] :
     link \in DeepUrls, a \in SeqsUpTo(DeepUrls, MaxAnchors)}

NextDeep ==
  \/ \E data \in DeepBodies : recursive_crawl_begin(MainProc, data)
  \/ crawl_no_more_links(MainProc)
  \/ \E id \in DOMAIN links_collection, page \in deep_extractions :
       page.link = links_collection[id].link /\ crawl_step(MainProc, id, page)
  \/ crawl_return(MainProc)
  \/ handler_exit(MainProc)

SpecDeep == Init /\ [][NextDeep]_vars

(***************************************************************************)
(* Crawls told by the anchors each fetch returns, which are kept where the *)
(* snapshot can be held against them; requests carry no depth.             *)
(***************************************************************************)
ExtractBodies ==
  {[url |-> u, has_depth |-> FALSE, depth |-> 0] : u \in {PlainUrl, WikiUrl, Absent}}

NextExtract ==
  \/ \E data \in ExtractBodies : recursive_crawl_begin(MainProc, data)
  \/ crawl_no_more_links(MainProc)
  \/ \E id \in DOMAIN links_collection, fr \in FetchResults :
       crawl_step_parsed(MainProc, id, fr)
  \/ crawl_return(MainProc)
  \/ handler_exit(MainProc)

SpecExtract == Init /\ [][NextExtract]_vars

(***************************************************************************)
(* Overlapping /recursive-crawl requests.  The development server answers  *)
(* each request on a thread of its own (app.py, app.run), and the handler  *)
(* takes no lock: between two store operations of one thread any other     *)
(* thread may run.  One action per store operation of the handler.         *)
(***************************************************************************)
\* the requests the server is given in one run
MaxOverlapRuns == 2

OverlapBodies ==
  {[url |-> u, has_depth |-> FALSE, depth |-> 0] : u \in {PlainUrl, BlogUrl, Absent}}

\* the pages the overlapping requests fetch: those that list at most one link
overlap_extractions ==
  {page \in extractions :
     page.status # "request_error" /\ Cardinality(page.unique_links) <= 1}

overlap_unchanged_locals ==
  UNCHANGED <<content_collection, handler, request, is_collection_empty, url,
              process_depth, pal_locals, stats, all_links, started>>

\* line 198, count_documents, then lines 201-223 on the thread's locals
crawl_count_documents(self, data) ==
  /\ pc[self] = "idle"
  /\ started < MaxOverlapRuns
  /\ started' = started + 1
  /\ handler' = [handler EXCEPT ![self] = "recursive_crawl"]
  /\ request' = [request EXCEPT ![self] = data]
  /\ is_collection_empty' =
       [is_collection_empty EXCEPT ![self] = no_documents(links_collection)]
  /\ url' = [url EXCEPT ![self] = local_url(links_collection, data)]
  /\ process_depth' =
       [process_depth EXCEPT ![self] = local_process_depth(links_collection, data)]
  /\ IF rejects_request(links_collection, data)
     THEN /\ pc' = [pc EXCEPT ![self] = "done"]
          /\ response' = [response EXCEPT ![self] = [code |-> 400, status |-> "error"]]
     ELSE /\ pc' = [pc EXCEPT ![self] =
                IF no_documents(links_collection) THEN "insert_seed" ELSE "find_at_depth"]
          /\ UNCHANGED response
  /\ UNCHANGED <<collections, range_index, link_doc, processed_bound, fetched,
                 steps, pal_locals, stats, step_locals, all_links>>

\* line 226: insert_one(seed_doc), on what line 198 saw
crawl_insert_seed(self) ==
  /\ pc[self] = "insert_seed"
  /\ links_collection' = insert_one(links_collection, seed_doc(url[self]))
  /\ pc' = [pc EXCEPT ![self] = "find_at_depth"]
  /\ UNCHANGED <<processed_collection, source_collection, range_index, link_doc,
                 processed_bound, fetched, steps, step_locals, response>>
  /\ overlap_unchanged_locals

\* lines 240-250: the loop's test, then find_one(query)
crawl_find_at_depth(self) ==
  /\ pc[self] = "find_at_depth"
  /\ range_index[self] < process_depth[self]
  /\ LET ids == find_one(query_ids(links_collection, url[self], range_index[self]))
     IN IF ids = {}
        THEN /\ pc' = [pc EXCEPT ![self] = "find_any"]
             /\ UNCHANGED link_doc
        ELSE /\ pc' = [pc EXCEPT ![self] = "fetch"]
             /\ \E id \in ids :
                  link_doc' = [link_doc EXCEPT ![self] = with_id(links_collection, id)]
  /\ UNCHANGED <<links_collection, processed_collection, source_collection,
                 range_index, processed_bound, fetched, steps, step_locals, response>>
  /\ overlap_unchanged_locals

\* lines 252-261: find_one({'is_crawled': {'$ne': True}}), 'info' when none
crawl_find_any(self) ==
  /\ pc[self] = "find_any"
  /\ LET ids == find_one(uncrawled_ids(links_collection))
     IN IF ids = {}
        THEN /\ pc' = [pc EXCEPT ![self] = "done"]
             /\ response' = [response EXCEPT ![self] = [code |-> 200, status |-> "info"]]
             /\ UNCHANGED link_doc
        ELSE /\ pc' = [pc EXCEPT ![self] = "fetch"]
             /\ UNCHANGED response
             /\ \E id \in ids :
                  link_doc' = [link_doc EXCEPT ![self] = with_id(links_collection, id)]
  /\ UNCHANGED <<links_collection, processed_collection, source_collection,
                 range_index, processed_bound, fetched, steps, step_locals>>
  /\ overlap_unchanged_locals

\* lines 263-350 and 407-429: the fetch and the extraction, then the insert
\* of the snapshot, or the update_one of an except branch and continue
crawl_fetch(self, page) ==
  /\ pc[self] = "fetch"
  /\ page.link = link_doc[self].link
  /\ processed_bound' = [processed_bound EXCEPT ![self] = TRUE]
  /\ fetched' = [fetched EXCEPT ![self] = page.status]
  /\ steps' = [steps EXCEPT ![self] = @ + 1]
  /\ IF page.status = "ok"
     THEN /\ \E order \in Orderings(page.unique_links) :
               /\ source_collection' =
                    insert_one(source_collection,
                               source_document(page.link, order,
                                               stored_depth(link_doc[self],
                                                            range_index[self])))
               /\ todo' = [todo EXCEPT ![self] = order]
          /\ pc' = [pc EXCEPT ![self] = "find_link"]
          /\ UNCHANGED <<links_collection, range_index>>
     ELSE /\ links_collection' =
               mark_crawled(links_collection, link_doc[self]._id,
                            crawl_error_msg(page.status))
          /\ range_index' = [range_index EXCEPT ![self] = @ + 1]
          /\ pc' = [pc EXCEPT ![self] = "find_at_depth"]
          /\ UNCHANGED <<source_collection, todo>>
  /\ UNCHANGED <<processed_collection, link_doc, found, response>>
  /\ overlap_unchanged_locals

\* lines 356-361: the next link of the loop, find_one({'link': link})
crawl_find_link(self) ==
  /\ pc[self] = "find_link"
  /\ IF todo[self] = <<>>
     THEN /\ pc' = [pc EXCEPT ![self] = "mark_crawled"]
          /\ UNCHANGED found
     ELSE /\ pc' = [pc EXCEPT ![self] = "insert_link"]
          /\ found' = [found EXCEPT ![self] =
               ids_with_link(links_collection, Head(todo[self])) # {}]
  /\ UNCHANGED <<links_collection, processed_collection, source_collection,
                 range_index, link_doc, processed_bound, fetched, steps, todo,
                 response>>
  /\ overlap_unchanged_locals

\* crawl_insert_link as one atomic insert-if-absent of the store
crawl_insert_link_if_absent(self) ==
  /\ pc[self] = "insert_link"
  /\ links_collection' =
       add_to_crawl(links_collection, Head(todo[self]), link_doc[self].link,
                    stored_depth(link_doc[self], range_index[self]))
  /\ IF should_process(Head(todo[self]), is_wiki_url(link_doc[self].link))
     THEN pc' = [pc EXCEPT ![self] = "find_task"] /\ UNCHANGED todo
     ELSE /\ pc' = [pc EXCEPT ![self] = "find_link"]
          /\ todo' = [todo EXCEPT ![self] = Tail(@)]
  /\ UNCHANGED <<processed_collection, source_collection, range_index, link_doc,
                 processed_bound, fetched, steps, found, response>>
  /\ overlap_unchanged_locals

\* lines 362-371: insert_one(crawl_doc) if the find_one gave nothing; then
\* line 374, the test of should_process
crawl_insert_link(self) ==
  /\ pc[self] = "insert_link"
  /\ links_collection' =
       IF found[self] THEN links_collection
       ELSE insert_one(links_collection,
                       crawl_doc(Head(todo[self]), link_doc[self].link,
                                 stored_depth(link_doc[self], range_index[self])))
  /\ IF should_process(Head(todo[self]), is_wiki_url(link_doc[self].link))
     THEN pc' = [pc EXCEPT ![self] = "find_task"] /\ UNCHANGED todo
     ELSE /\ pc' = [pc EXCEPT ![self] = "find_link"]
          /\ todo' = [todo EXCEPT ![self] = Tail(@)]
  /\ UNCHANGED <<processed_collection, source_collection, range_index, link_doc,
                 processed_bound, fetched, steps, found, response>>
  /\ overlap_unchanged_locals

\* line 375: processed_collection.find_one({'link': link})
crawl_find_task(self) ==
  /\ pc[self] = "find_task"
  /\ found' = [found EXCEPT ![self] =
       ids_with_link(processed_collection, Head(todo[self])) # {}]
  /\ pc' = [pc EXCEPT ![self] = "insert_task"]
  /\ UNCHANGED <<links_collection, processed_collection, source_collection,
                 range_index, link_doc, processed_bound, fetched, steps, todo,
                 response>>
  /\ overlap_unchanged_locals

\* lines 376-386: insert_one(process_doc) if the find_one gave nothing
crawl_insert_task(self) ==
  /\ pc[self] = "insert_task"
  /\ processed_collection' =
       IF found[self] THEN processed_collection
       ELSE insert_one(processed_collection,
                       process_doc(Head(todo[self]), link_doc[self].link,
                                   stored_depth(link_doc[self], range_index[self]),
                                   is_wiki_url(link_doc[self].link)))
  /\ todo' = [todo EXCEPT ![self] = Tail(@)]
  /\ pc' = [pc EXCEPT ![self] = "find_link"]
  /\ UNCHANGED <<links_collection, source_collection, range_index, link_doc,
                 processed_bound, fetched, steps, found, response>>
  /\ overlap_unchanged_locals

\* lines 388-395: update_one(is_crawled), then find_one({'link': url_to_crawl})
\* on Processed_Links
crawl_mark_crawled(self) ==
  /\ pc[self] = "mark_crawled"
  /\ links_collection' = mark_crawled(links_collection, link_doc[self]._id, NoError)
  /\ pc' = [pc EXCEPT ![self] = "find_own_task"]
  /\ UNCHANGED <<processed_collection, source_collection, range_index, link_doc,
                 processed_bound, fetched, steps, step_locals, response>>
  /\ overlap_unchanged_locals

crawl_find_own_task(self) ==
  /\ pc[self] = "find_own_task"
  /\ found' = [found EXCEPT ![self] =
       ids_with_link(processed_collection, link_doc[self].link) # {}]
  /\ pc' = [pc EXCEPT ![self] = "insert_own_task"]
  /\ UNCHANGED <<links_collection, processed_collection, source_collection,
                 range_index, link_doc, processed_bound, fetched, steps, todo,
                 response>>
  /\ overlap_unchanged_locals

\* lines 396-405: insert_one(process_doc) of the page itself if the find_one
\* gave nothing; the iteration ends
crawl_insert_own_task(self) ==
  /\ pc[self] = "insert_own_task"
  /\ processed_collection' =
       IF found[self] THEN processed_collection
       ELSE insert_one(processed_collection,
                       own_process_doc(link_doc[self],
                                       stored_depth(link_doc[self], range_index[self]),
                                       is_wiki_url(link_doc[self].link)))
  /\ range_index' = [range_index EXCEPT ![self] = @ + 1]
  /\ pc' = [pc EXCEPT ![self] = "find_at_depth"]
  /\ UNCHANGED <<links_collection, source_collection, link_doc, processed_bound,
                 fetched, steps, step_locals, response>>
  /\ overlap_unchanged_locals

\* lines 431-444: the loop is over
crawl_finished(self) ==
  /\ pc[self] = "find_at_depth"
  /\ range_index[self] >= process_depth[self]
  /\ pc' = [pc EXCEPT ![self] = "done"]
  /\ response' = [response EXCEPT ![self] =
       IF processed_bound[self] THEN [code |-> 200, status |-> "success"]
       ELSE [code |-> 500, status |-> "error"]]
  /\ UNCHANGED <<collections, handler, request, crawl_locals, fetched, pal_locals,
                 stats, step_locals, all_links, started>>

\* the handler without the insert of the seed
recursive_crawl_loop(self) ==
  \/ \E data \in OverlapBodies : crawl_count_documents(self, data)
  \/ crawl_find_at_depth(self)
  \/ crawl_find_any(self)
  \/ \E page \in overlap_extractions : crawl_fetch(self, page)
  \/ crawl_find_link(self)
  \/ crawl_insert_link(self)
  \/ crawl_find_task(self)
  \/ crawl_insert_task(self)
  \/ crawl_mark_crawled(self)
  \/ crawl_find_own_task(self)
  \/ crawl_insert_own_task(self)
  \/ crawl_finished(self)
  \/ handler_exit(self)

recursive_crawl(self) == crawl_insert_seed(self) \/ recursive_crawl_loop(self)

NextOverlap == \E self \in Procs : recursive_crawl(self)

SpecOverlap == Init /\ [][NextOverlap]_vars

(***************************************************************************)
(* Overlapping requests on a store that holds pending tasks: the threads   *)
(* serve /recursive-crawl and /process-all-links, one action per store     *)
(* call.  The store at the start is the one a first crawl request, served  *)
(* alone, leaves: a seed crawled with the default budget.                  *)
(***************************************************************************)
\* the collections after recursive_crawl seeded with seed and crawled it,
\* its page listing the links of order
crawled_store(seed, order) ==
  LET seeded == insert_one(<<>>, seed_doc(seed))
      doc == with_id(seeded, 1)
      is_wiki == is_wiki_url(seed)
      added == add_all_to_crawl(seeded, order, seed, 0)
      queued == add_all_to_process(<<>>, order, seed, 0, is_wiki)
  IN [links |-> mark_crawled(added, 1, NoError),
      processed |-> add_own_task(queued, doc, 0, is_wiki),
      source |-> insert_one(<<>>, source_document(seed, order, 0))]

crawled_stores ==
  UNION {{crawled_store(page.link, order) : order \in Orderings(page.unique_links)} :
           page \in {e \in overlap_extractions :
                       e.status = "ok" /\ e.link \in {PlainUrl, BlogUrl}}}

InitQueued ==
  /\ \E store \in crawled_stores :
       /\ links_collection = store.links
       /\ processed_collection = store.processed
       /\ source_collection = store.source
  /\ content_collection = <<>>
  /\ pc = [p \in Procs |-> "idle"]
  /\ handler = [p \in Procs |-> "none"]
  /\ request = [p \in Procs |-> NoRequest]
  /\ is_collection_empty = [p \in Procs |-> FALSE]
  /\ url = [p \in Procs |-> Absent]
  /\ process_depth = [p \in Procs |-> 1]
  /\ range_index = [p \in Procs |-> 0]
  /\ link_doc = [p \in Procs |-> NoDoc]
  /\ processed_bound = [p \in Procs |-> FALSE]
  /\ fetched = [p \in Procs |-> Absent]
  /\ steps = [p \in Procs |-> 0]
  /\ unprocessed_links = [p \in Procs |-> <<>>]
  /\ unprocessed_count = [p \in Procs |-> 0]
  /\ link_index = [p \in Procs |-> 1]
  /\ results = [p \in Procs |-> NoResults]
  /\ stats = [p \in Procs |-> NoStats]
  /\ todo = [p \in Procs |-> <<>>]
  /\ found = [p \in Procs |-> FALSE]
  /\ all_links = [p \in Procs |-> <<>>]
  /\ started = 0
  /\ response = [p \in Procs |-> NoResponse]

pal_unchanged_locals ==
  UNCHANGED <<links_collection, source_collection, request, crawl_locals,
              stats, step_locals, all_links>>

\* lines 473-480: count_documents({'is_processed': False}), the early return
pal_count_documents(self) ==
  /\ pc[self] = "idle"
  /\ started < MaxOverlapRuns
  /\ started' = started + 1
  /\ handler' = [handler EXCEPT ![self] = "process_all_links"]
  /\ unprocessed_count' =
       [unprocessed_count EXCEPT ![self] = Cardinality(unprocessed_ids(processed_collection))]
  /\ IF unprocessed_ids(processed_collection) = {}
     THEN /\ pc' = [pc EXCEPT ![self] = "done"]
          /\ response' = [response EXCEPT ![self] = [code |-> 200, status |-> "complete"]]
     ELSE /\ pc' = [pc EXCEPT ![self] = "find_pending"]
          /\ UNCHANGED response
  /\ UNCHANGED <<processed_collection, content_collection, fetched,
                 unprocessed_links, link_index, results>>
  /\ pal_unchanged_locals

\* lines 483-492: list(find({'is_processed': False})), the empty tallies
pal_find_pending(self) ==
  /\ pc[self] = "find_pending"
  /\ unprocessed_links' =
       [unprocessed_links EXCEPT ![self] = pending_list(processed_collection, 1)]
  /\ results' = [results EXCEPT ![self] =
       [reported |-> FALSE, total_unprocessed |-> unprocessed_count[self],
        processed |-> 0, success |-> 0, failed |-> 0]]
  /\ pc' = [pc EXCEPT ![self] = "scrape"]
  /\ UNCHANGED <<processed_collection, content_collection, handler, fetched,
                 unprocessed_count, link_index, started, response>>
  /\ pal_unchanged_locals

\* current_task read from the store again: the newest pending task, if any
current_task_live(self) ==
  LET ids == unprocessed_ids(processed_collection)
  IN IF ids = {} THEN unprocessed_links[self][link_index[self]]
     ELSE with_id(processed_collection, CHOOSE j \in ids : \A k \in ids : k <= j)

\* line 495: link_doc, the element of the list the loop is at
current_task(self) == unprocessed_links[self][link_index[self]]

\* lines 495-501 and scrape_single_link up to its first store call: the
\* fetch, then insert_one(content_document) (line 631), or the update_one of
\* an except branch (lines 651-660, 673-683) and the next task
pal_scrape(self, status) ==
  /\ pc[self] = "scrape"
  /\ link_index[self] <= Len(unprocessed_links[self])
  /\ fetched' = [fetched EXCEPT ![self] = status]
  /\ IF status = "ok"
     THEN /\ content_collection' =
               insert_one(content_collection, content_document(current_task(self)))
          /\ pc' = [pc EXCEPT ![self] = "mark_processed"]
          /\ UNCHANGED <<processed_collection, results, link_index>>
     ELSE /\ processed_collection' =
               mark_processed(processed_collection, current_task(self)._id,
                              scrape_error_msg(status))
          /\ results' = [results EXCEPT ![self] = tallied(@, status)]
          /\ link_index' = [link_index EXCEPT ![self] = @ + 1]
          /\ UNCHANGED <<content_collection, pc>>
  /\ UNCHANGED <<handler, unprocessed_links, unprocessed_count, started, response>>
  /\ pal_unchanged_locals

\* lines 634-637: update_one(is_processed), then lines 503-529, the tallies
pal_mark_processed(self) ==
  /\ pc[self] = "mark_processed"
  /\ processed_collection' =
       mark_processed(processed_collection, current_task(self)._id, NoError)
  /\ results' = [results EXCEPT ![self] = tallied(@, "ok")]
  /\ link_index' = [link_index EXCEPT ![self] = @ + 1]
  /\ pc' = [pc EXCEPT ![self] = "scrape"]
  /\ UNCHANGED <<content_collection, handler, fetched, unprocessed_links,
                 unprocessed_count, started, response>>
  /\ pal_unchanged_locals

\* lines 531-537: the loop is over, the results are returned
pal_finished(self) ==
  /\ pc[self] = "scrape"
  /\ link_index[self] > Len(unprocessed_links[self])
  /\ pc' = [pc EXCEPT ![self] = "done"]
  /\ results' = [results EXCEPT ![self].reported = TRUE]
  /\ response' = [response EXCEPT ![self] = [code |-> 200, status |-> "complete"]]
  /\ UNCHANGED <<processed_collection, content_collection, handler, fetched,
                 unprocessed_links, unprocessed_count, link_index, started>>
  /\ pal_unchanged_locals

process_all_links(self) ==
  \/ pal_count_documents(self)
  \/ pal_find_pending(self)
  \/ \E status \in ScrapeStatuses : pal_scrape(self, status)
  \/ pal_mark_processed(self)
  \/ pal_finished(self)

NextPipeline ==
  \E self \in Procs : recursive_crawl_loop(self) \/ process_all_links(self)

SpecPipeline == InitQueued /\ [][NextPipeline]_vars

(***************************************************************************)
(* Properties.                                                             *)
(***************************************************************************)
Range(f) == {f[i] : i \in DOMAIN f}
SnapshotLinks(i) == Range(source_collection[i].uniqueLinks)

\* C1: under sequential /recursive-crawl invocations the frontier holds at
\* most one LinkEntry per URL string
C1_OneLinkEntryPerUrl ==
  \A i, j \in DOMAIN links_collection :
    links_collection[i].link = links_collection[j].link => i = j

\* two pages listed the same URL, and a page listed itself
C1_Rediscovered ==
  /\ \E i, j \in DOMAIN source_collection :
       /\ source_collection[i].source_url # source_collection[j].source_url
       /\ SnapshotLinks(i) \cap SnapshotLinks(j) # {}
  /\ \E k \in DOMAIN source_collection :
       source_collection[k].source_url \in SnapshotLinks(k)
  /\ \E k \in DOMAIN source_collection : links_collection[1].link \in SnapshotLinks(k)

\* C2: under sequential /recursive-crawl and /process-all-links invocations
\* the content queue holds at most one ContentTask per URL string, the tasks
\* of discovered links and the crawled page's own task counted together
C2_OneContentTaskPerUrl ==
  \A i, j \in DOMAIN processed_collection :
    processed_collection[i].link = processed_collection[j].link => i = j

\* a discovered content link, queued when it was discovered, was crawled
\* itself later; the seed has its own task; a task has been processed
C2_BothInsertsTried ==
  /\ \E k \in DOMAIN source_collection :
       /\ source_collection[k].source_url = BlogUrl
       /\ source_collection[k].depth >= 1
  /\ \E i \in DOMAIN processed_collection :
       processed_collection[i].source_url = "seed_url"
  /\ \E i \in DOMAIN processed_collection : processed_collection[i].is_processed

\* the thread that serves the sequential server's requests
P == MainProc
Crawling == handler[P] = "recursive_crawl"
Resumed == Crawling /\ ~is_collection_empty[P]
DepthZeroIds(lc) == {i \in DOMAIN lc : lc[i].depth = 0}
Max(a, b) == IF a >= b THEN a ELSE b

\* C3: a /recursive-crawl request that finds the frontier non-empty inserts
\* no depth-0 entry, whatever URL it carries; the handler's url stays None, so
\* that each candidate is an uncrawled entry chosen by depth alone
C3_UrlIgnoredOnResume ==
  [][ /\ Resumed' => /\ url'[P] = Absent
                     /\ DepthZeroIds(links_collection') = DepthZeroIds(links_collection)
      /\ (Resumed /\ steps'[P] = steps[P] + 1) =>
           LET at_depth == {i \in uncrawled_ids(links_collection) :
                              links_collection[i].depth = range_index[P]}
           IN /\ link_doc'[P]._id \in uncrawled_ids(links_collection)
              /\ at_depth # {} => link_doc'[P]._id \in at_depth ]_vars

\* a request carrying a valid URL the frontier does not hold resumed the
\* frontier and crawled an entry
C3_ResumedWithUrl ==
  /\ Resumed
  /\ is_valid_url(request[P].url)
  /\ ids_with_link(links_collection, request[P].url) = {}
  /\ steps[P] = 1
  /\ link_doc[P].link # request[P].url

\* the crawl handler has returned from the loop or after it
CrawlReturned == Crawling /\ pc[P] = "done" /\ response[P].code # 400

\* C4 as claimed, where the budget N is at least 1 and the last candidate
\* lies below the seed: an invocation given depth budget N, seeding or
\* resuming, returns after N crawl steps or with no uncrawled entry left
C4_BudgetAlwaysHonoured ==
  (/\ CrawlReturned
   /\ request[P].has_depth /\ request[P].depth >= 1
   /\ link_doc[P].depth >= 1) =>
     \/ steps[P] = request[P].depth
     \/ uncrawled_ids(links_collection) = {}

\* C4, amended: an invocation that seeds an empty frontier with depth budget
\* N returns after N crawl steps or with no uncrawled entry left; one that
\* resumes a non-empty frontier does so with the budget 1, whatever N is
C4_BudgetHonouredWhenSeeding ==
  CrawlReturned =>
    LET budget == IF is_collection_empty[P] /\ request[P].has_depth
                  THEN Max(request[P].depth, 0) ELSE 1
    IN \/ steps[P] = budget
       \/ steps[P] < budget /\ uncrawled_ids(links_collection) = {}

\* a seeding invocation with budget 2 made two crawl steps and left work
C4_SeededTwoSteps ==
  /\ CrawlReturned
  /\ is_collection_empty[P]
  /\ request[P].has_depth /\ request[P].depth = 2
  /\ steps[P] = 2
  /\ uncrawled_ids(links_collection) # {}

\* C5: /recursive-crawl answers 400 exactly when the frontier is empty and
\* the URL is missing or invalid, and 200 in every other case
C5_Only400Or200 ==
  (Crawling /\ pc[P] = "done") =>
    LET bad_seed == /\ is_collection_empty[P]
                    /\ (request[P].url = Absent \/ ~is_valid_url(request[P].url))
    IN /\ response[P].code = 400 <=> bad_seed
       /\ ~bad_seed => response[P].code = 200

\* C6: a /recursive-crawl request answered 400 leaves the four collections
\* as they were, with no LinkEntry for the rejected URL
C6_RejectionChangesNothing ==
  [][ (Crawling' /\ pc'[P] = "done" /\ response'[P].code = 400) =>
        /\ collections' = collections
        /\ ids_with_link(links_collection', request'[P].url) = {} ]_vars

\* a request with a malformed URL has been rejected
C6_MalformedRejected ==
  /\ Crawling /\ pc[P] = "done" /\ response[P].code = 400
  /\ request[P].url = BadUrl

\* a crawl step has been made: a candidate was found and fetched
CrawlStepMade == Crawling /\ steps'[P] = steps[P] + 1
NewIds(old, new) == DOMAIN new \ DOMAIN old

\* C7: the LinkEntry and the ContentTask a crawl step inserts for a link
\* found on page P have P's stored depth plus 1, also when P was picked by the
\* any-uncrawled fallback; the LinkEntry that seeding inserts has depth 0
C7_DepthIsParentPlusOne ==
  [][ /\ CrawlStepMade =>
           LET parent == link_doc'[P]
           IN /\ parent.depth = links_collection[parent._id].depth
              /\ \A i \in NewIds(links_collection, links_collection') :
                   /\ links_collection'[i].source_url = parent.link
                   /\ links_collection'[i].depth = parent.depth + 1
              /\ \A j \in NewIds(processed_collection, processed_collection') :
                   processed_collection'[j].source_url = parent.link =>
                     processed_collection'[j].depth = parent.depth + 1
      /\ (Crawling' /\ ~Crawling) =>
           \A i \in NewIds(links_collection, links_collection') :
             /\ links_collection'[i].depth = 0
             /\ links_collection'[i].link = request'[P].url ]_vars

\* the last candidate was picked by the fallback, at an iteration index other
\* than its depth, and a LinkEntry and a ContentTask were inserted for a link
\* found on it
C7_FallbackParent ==
  /\ Crawling /\ steps[P] >= 1 /\ fetched[P] = "ok"
  /\ link_doc[P].depth # range_index[P] - 1
  /\ link_doc[P].depth >= 1
  /\ \E i \in DOMAIN links_collection :
       /\ links_collection[i].source_url = link_doc[P].link
       /\ links_collection[i].depth = link_doc[P].depth + 1
  /\ \E j \in DOMAIN processed_collection :
       /\ processed_collection[j].source_url = link_doc[P].link
       /\ processed_collection[j].depth = link_doc[P].depth + 1

\* C8: a crawl step whose fetch fails leaves the candidate crawled with a
\* non-empty error and the handler in its loop, one iteration further; the
\* handler leaves the loop only with the budget used up or no uncrawled
\* entry left
C8_FetchFailureIsolated ==
  [][ /\ (CrawlStepMade /\ fetched'[P] # "ok") =>
           /\ links_collection'[link_doc'[P]._id].is_crawled
           /\ links_collection'[link_doc'[P]._id].error # NoError
           /\ pc'[P] = "crawl_loop"
           /\ range_index'[P] = range_index[P] + 1
           /\ process_depth'[P] = process_depth[P]
      /\ (Crawling /\ pc[P] = "crawl_loop" /\ pc'[P] = "done") =>
           \/ range_index[P] >= process_depth[P]
           \/ uncrawled_ids(links_collection) = {} ]_vars

\* in one invocation the second fetch failed and the third step crawled
\* another entry
C8_CrawledOnAfterFailure ==
  /\ Crawling /\ is_collection_empty[P]
  /\ steps[P] = 3 /\ fetched[P] = "ok"
  /\ \E i \in DOMAIN links_collection : links_collection[i].error # NoError

Processing == handler[P] = "process_all_links"

\* C9: in a /process-all-links run a failed fetch or extraction marks that
\* one task processed with a non-empty error, creates no ScrapedDocument and
\* changes no other task; the run goes on and returns only after the last
\* task of its list
C9_ScrapeFailureIsolated ==
  [][ /\ (Processing /\ link_index'[P] = link_index[P] + 1 /\ fetched'[P] # "ok") =>
           LET id == unprocessed_links[P][link_index[P]]._id
           IN /\ processed_collection'[id].is_processed
              /\ processed_collection'[id].error # NoError
              /\ DOMAIN processed_collection' = DOMAIN processed_collection
              /\ \A i \in DOMAIN processed_collection \ {id} :
                   processed_collection'[i] = processed_collection[i]
              /\ content_collection' = content_collection
              /\ pc'[P] = "pal_loop"
      /\ (Processing /\ pc[P] = "pal_loop" /\ pc'[P] = "done") =>
           link_index[P] > Len(unprocessed_links[P]) ]_vars

\* in one run a task failed and a later task was scraped
C9_ScrapedOnAfterFailure ==
  /\ Processing /\ pc[P] = "pal_loop"
  /\ results[P].failed >= 1
  /\ fetched[P] = "ok"
  /\ \E k \in DOMAIN content_collection :
       content_collection[k].link_id = unprocessed_links[P][link_index[P] - 1]._id

\* C10: when a /process-all-links run returns, no task is pending, the tasks
\* of its list are all processed, and the results it reports count as
\* processed the tasks that were pending at its start, each one either as a
\* success or as a failure
C10_RunDrainsPending ==
  (Processing /\ pc[P] = "done") =>
    /\ unprocessed_ids(processed_collection) = {}
    /\ \A k \in DOMAIN unprocessed_links[P] :
         processed_collection[unprocessed_links[P][k]._id].is_processed
    /\ IF results[P].reported
       THEN /\ results[P].processed = unprocessed_count[P]
            /\ results[P].processed = Len(unprocessed_links[P])
            /\ results[P].success + results[P].failed = results[P].processed
       ELSE unprocessed_count[P] = 0

\* a run over several tasks returned with successes and failures
C10_MixedRunReturned ==
  /\ Processing /\ pc[P] = "done" /\ results[P].reported
  /\ results[P].success >= 1
  /\ results[P].failed >= 1
  /\ results[P].processed >= 3

\* the ScrapedDocuments that reference the ContentTask with _id i
documents_of(i) ==
  {k \in DOMAIN content_collection : content_collection[k].link_id = i}
ProcessedWithoutError ==
  {i \in DOMAIN processed_collection :
     processed_collection[i].is_processed /\ processed_collection[i].error = NoError}

\* C11: under sequential invocations a ContentTask processed without error
\* has exactly one ScrapedDocument referencing it, a task that is pending or
\* processed with an error has none, and there are as many ScrapedDocuments
\* as tasks processed without error
C11_OneDocumentPerSuccess ==
  /\ \A i \in DOMAIN processed_collection :
       Cardinality(documents_of(i)) = IF i \in ProcessedWithoutError THEN 1 ELSE 0
  /\ Len(content_collection) = Cardinality(ProcessedWithoutError)

\* tasks of all three kinds exist: scraped, failed and pending
C11_ScrapedFailedAndPending ==
  /\ ProcessedWithoutError # {}
  /\ \E i \in DOMAIN processed_collection :
       processed_collection[i].is_processed /\ processed_collection[i].error # NoError
  /\ \E i \in DOMAIN processed_collection : ~processed_collection[i].is_processed

\* C12: under sequential invocations no LinkEntry is deleted or changes its
\* URL, a crawled flag never goes back to false, and the candidate of every
\* crawl step is an entry that was not crawled before the step and is
\* crawled after it
C12_CrawledIsTerminal ==
  [][ /\ Len(links_collection') >= Len(links_collection)
      /\ \A i \in DOMAIN links_collection :
           /\ links_collection'[i].link = links_collection[i].link
           /\ links_collection[i].is_crawled => links_collection'[i].is_crawled
      /\ CrawlStepMade =>
           /\ ~links_collection[link_doc'[P]._id].is_crawled
           /\ links_collection'[link_doc'[P]._id].is_crawled ]_vars

\* a later invocation crawled an entry while the frontier held an entry
\* crawled with an error and an entry crawled without
C12_CrawledOnPastTerminal ==
  /\ Resumed /\ steps[P] = 1
  /\ \E i, j \in DOMAIN links_collection \ {link_doc[P]._id} :
       /\ links_collection[i].is_crawled /\ links_collection[i].error # NoError
       /\ links_collection[j].is_crawled /\ links_collection[j].error = NoError

\* a task of the run's list has been handed to scrape_single_link
TaskScraped == Processing /\ link_index'[P] = link_index[P] + 1

\* C13: under sequential invocations no ContentTask is deleted, a processed
\* flag never goes back to false, the list a /process-all-links run takes
\* holds no processed task, and every task the run fetches was pending before
\* the fetch and is processed after it
C13_ProcessedIsTerminal ==
  [][ /\ Len(processed_collection') >= Len(processed_collection)
      /\ \A i \in DOMAIN processed_collection :
           /\ processed_collection'[i].link = processed_collection[i].link
           /\ processed_collection[i].is_processed =>
                processed_collection'[i].is_processed
      /\ (Processing' /\ ~Processing) =>
           \A k \in DOMAIN unprocessed_links'[P] :
             ~processed_collection[unprocessed_links'[P][k]._id].is_processed
      /\ TaskScraped =>
           LET id == unprocessed_links[P][link_index[P]]._id
           IN /\ ~processed_collection[id].is_processed
              /\ processed_collection'[id].is_processed ]_vars

\* a later run scraped a task while the queue held a task that an earlier
\* run had processed with an error
C13_RunPastFailedTask ==
  /\ Processing /\ link_index[P] > 1
  /\ \E i \in DOMAIN processed_collection :
       /\ processed_collection[i].is_processed
       /\ processed_collection[i].error # NoError
       /\ \A k \in DOMAIN unprocessed_links[P] : unprocessed_links[P][k]._id # i

\* C14: a /process-all-links run that finds no pending task returns without
\* a fetch and without entering its loop, with status complete and with
\* results that report a processed count of 0
C14_EmptyRunReportsZero ==
  (Processing /\ pc[P] = "done" /\ unprocessed_count[P] = 0) =>
    /\ fetched[P] = Absent
    /\ link_index[P] = 1
    /\ response[P].code = 200 /\ response[P].status = "complete"
    /\ results[P].reported
    /\ results[P].processed = 0

\* C15: a /realtime-stats invocation leaves the four collections as they
\* were, whether it answers 200 or 500
C15_StatsReadOnly ==
  [][ (handler'[P] = "realtime_stats" \/ handler[P] = "realtime_stats") =>
        collections' = collections ]_vars

\* the statistics of a store with crawled entries, a pending task and a
\* scraped document have been returned
C15_StatsOfWorkingStore ==
  /\ handler[P] = "realtime_stats" /\ pc[P] = "done"
  /\ response[P].code = 200
  /\ Len(stats[P].Links) >= 2
  /\ stats[P].Pending_Links >= 1
  /\ stats[P].Scrapped_Links >= 1
  /\ stats[P].Total_Number_of_Links > stats[P].Pending_Links

NotCrawled(lc) == {i \in DOMAIN lc : lc[i].is_crawled = FALSE}

\* C18: the candidate of a crawl step is an uncrawled entry; in the first
\* iteration of an invocation that seeded the frontier it is the seed entry;
\* in every other iteration i it has depth i whenever some uncrawled entry
\* has depth i
C18_CandidateByDepth ==
  [][ CrawlStepMade =>
        LET i == range_index[P]
            c == link_doc'[P]._id
            seeded_first == is_collection_empty[P] /\ i = 0
        IN /\ c \in NotCrawled(links_collection)
           /\ seeded_first =>
                /\ links_collection[c].link = request[P].url
                /\ links_collection[c].depth = 0
           /\ (~seeded_first /\ \E j \in NotCrawled(links_collection) :
                                  links_collection[j].depth = i) =>
                links_collection[c].depth = i ]_vars

\* in the third iteration the candidate was taken at depth 2 while an older
\* entry of depth 1 was uncrawled, in an invocation that had seeded the
\* frontier and crawled the seed first
C18_PreferredOverOtherDepth ==
  /\ Crawling /\ is_collection_empty[P]
  /\ steps[P] = 3 /\ range_index[P] = 3
  /\ link_doc[P].depth = 2
  /\ \E j \in NotCrawled(links_collection) :
       /\ links_collection[j].depth = 1
       /\ links_collection[j].source_url = request[P].url

\* C19: the 'no more links' report is given only when no entry is
\* uncrawled; an invocation whose budget is at least 1 returns without a
\* crawl step only if no entry was uncrawled, and the candidate of its last
\* step is crawled
C19_EarlyStopOnlyWhenDrained ==
  /\ (Crawling /\ pc[P] = "done" /\ response[P].status = "info") =>
       NotCrawled(links_collection) = {}
  /\ (CrawlReturned /\ process_depth[P] >= 1 /\ steps[P] = 0) =>
       /\ NotCrawled(links_collection) = {}
       /\ ~is_collection_empty[P]
  /\ (Crawling /\ steps[P] >= 1) => links_collection[link_doc[P]._id].is_crawled

\* an invocation stopped early, with budget left, after it had crawled
C19_StoppedEarlyAfterCrawling ==
  /\ Crawling /\ pc[P] = "done" /\ response[P].status = "info"
  /\ steps[P] >= 1
  /\ range_index[P] < process_depth[P]

\* the last crawl step was a successful one on a depth-0 candidate
SeedCrawled ==
  /\ Crawling /\ steps[P] >= 1 /\ fetched[P] = "ok"
  /\ link_doc[P].depth = 0
TasksOf(link) == {j \in DOMAIN processed_collection : processed_collection[j].link = link}
\* the page of the last crawl step lists its own URL, and that URL is
\* content-worthy
ListsItself ==
  /\ link_doc[P].link \in SnapshotLinks(Len(source_collection))
  /\ should_process(link_doc[P].link, is_wiki_url(link_doc[P].link))

\* C20 as claimed: after a successful crawl step on a depth-0 candidate a
\* ContentTask exists for the candidate URL, and it has source "seed_url" and
\* depth 0, whatever the page holds
C20_SeedTaskAlwaysTagged ==
  SeedCrawled =>
    /\ TasksOf(link_doc[P].link) # {}
    /\ \A j \in TasksOf(link_doc[P].link) :
         /\ processed_collection[j].source_url = "seed_url"
         /\ processed_collection[j].depth = 0

\* C20, amended: after a successful crawl step on a depth-0 candidate exactly
\* one ContentTask exists for the candidate URL, whatever its text hint; it
\* has source "seed_url" and depth 0 unless the page lists its own
\* content-worthy URL, and then it is the task of step 5, with the candidate
\* URL as source and depth 1
C20_SeedTaskTaggedUnlessListed ==
  SeedCrawled =>
    /\ Cardinality(TasksOf(link_doc[P].link)) = 1
    /\ \A j \in TasksOf(link_doc[P].link) :
         IF ListsItself
         THEN /\ processed_collection[j].source_url = link_doc[P].link
              /\ processed_collection[j].depth = 1
         ELSE /\ processed_collection[j].source_url = "seed_url"
              /\ processed_collection[j].depth = 0

\* a seed with a text hint whose page lists the seed's own URL was crawled:
\* its one task is the task of step 5
C20_ListedSeedKeepsLinkTask ==
  /\ SeedCrawled /\ ListsItself
  /\ link_doc[P].link = BlogUrl
  /\ is_collection_empty[P]
  /\ \E j \in TasksOf(BlogUrl) : processed_collection[j].depth = 1

Duplicated(coll) ==
  {i \in DOMAIN coll : \E j \in DOMAIN coll : j # i /\ coll[j].link = coll[i].link}

\* C16: under overlapping /recursive-crawl invocations a thread whose
\* existence check found no record inserts its record also when another
\* thread has inserted one for the same URL since the check: the frontier
\* and the content queue then hold two records for the URL
C16_InsertOnStaleCheck ==
  [][ \A p \in Procs :
        /\ (pc[p] = "insert_link" /\ pc'[p] # pc[p] /\ ~found[p]) =>
             /\ Len(links_collection') = Len(links_collection) + 1
             /\ links_collection'[Len(links_collection')].link = Head(todo[p])
        /\ (pc[p] = "insert_task" /\ pc'[p] # pc[p] /\ ~found[p]) =>
             /\ Len(processed_collection') = Len(processed_collection) + 1
             /\ processed_collection'[Len(processed_collection')].link = Head(todo[p])
        /\ (pc[p] = "insert_own_task" /\ pc'[p] # pc[p] /\ ~found[p]) =>
             /\ Len(processed_collection') = Len(processed_collection) + 1
             /\ processed_collection'[Len(processed_collection')].link = link_doc[p].link
    ]_vars

\* two invocations found the same new URL on the page they both crawled:
\* two LinkEntry records and two ContentTask records stand for it
C16_TwoRecordsForOneUrl ==
  /\ started = 2
  /\ \E i \in Duplicated(links_collection), j \in Duplicated(processed_collection) :
       /\ links_collection[i].link = processed_collection[j].link
       /\ links_collection[i].depth = 1
       /\ processed_collection[j].depth = 1

\* C17 as claimed: the frontier never holds two depth-0 seed entries, also
\* when /recursive-crawl requests overlap
C17_AtMostOneSeed == Cardinality(DepthZeroIds(links_collection)) <= 1

\* a crawl step whose fetch and extraction succeeded
CrawlStepSucceeded == CrawlStepMade /\ fetched'[P] = "ok"
\* the links the page of that step lists: the snapshot the step appends
StepLinks == Range(source_collection'[Len(source_collection')].uniqueLinks)
GetsTask(u) ==
  \E j \in NewIds(processed_collection, processed_collection') :
    processed_collection'[j].link = u
GetsEntry(u) ==
  \E i \in NewIds(links_collection, links_collection') :
    links_collection'[i].link = u
HadTask(u) == \E j \in DOMAIN processed_collection : processed_collection[j].link = u
HadEntry(u) == \E i \in DOMAIN links_collection : links_collection[i].link = u
ContentWorthy(u) == is_wiki_url(link_doc'[P].link) \/ contains_text_in_url(u)

\* C21 as claimed: in a successful crawl step every discovered URL gets a
\* new ContentTask exactly when it is content-worthy and had none, and a new
\* LinkEntry exactly when it had none
C21_TaskIffContentWorthy ==
  [][ CrawlStepSucceeded =>
        \A u \in StepLinks :
          /\ GetsTask(u) <=> (ContentWorthy(u) /\ ~HadTask(u))
          /\ GetsEntry(u) <=> ~HadEntry(u) ]_vars

\* C21, amended: in a successful crawl step every discovered URL other than
\* the candidate's own gets a new ContentTask exactly when it is
\* content-worthy and had none; the candidate's own URL, listed or not, gets
\* one exactly when it had none, whatever its text hint; every discovered
\* URL gets a new LinkEntry exactly when it had none
C21_TaskIffContentWorthyOrOwn ==
  [][ CrawlStepSucceeded =>
        /\ \A u \in StepLinks \ {link_doc'[P].link} :
             GetsTask(u) <=> (ContentWorthy(u) /\ ~HadTask(u))
        /\ GetsTask(link_doc'[P].link) <=> ~HadTask(link_doc'[P].link)
        /\ \A u \in StepLinks : GetsEntry(u) <=> ~HadEntry(u) ]_vars

\* a page in default mode listed a URL without a text hint, which got a
\* LinkEntry and no ContentTask, and a URL with one, which got both
C21_PlainLinkWithoutTask ==
  /\ Crawling /\ steps[P] >= 1 /\ fetched[P] = "ok"
  /\ link_doc[P].link = BlogUrl
  /\ SnapshotLinks(Len(source_collection)) = {PlainUrl, WikiUrl}
  /\ \E i \in DOMAIN links_collection :
       links_collection[i].link = PlainUrl /\ links_collection[i].source_url = BlogUrl
  /\ TasksOf(PlainUrl) = {}
  /\ \E j \in TasksOf(WikiUrl) : processed_collection[j].source_url = BlogUrl

\* the URLs among the anchors of the page just fetched that the extraction
\* keeps
Qualifying ==
  {all_links'[P][k] : k \in {n \in DOMAIN all_links'[P] :
      /\ ~skipped_href(all_links'[P][n])
      /\ keeps_url(all_links'[P][n], is_wiki_url(link_doc'[P].link))}}

\* C22: a successful crawl step appends exactly one CrawlSnapshot, which
\* carries the candidate's URL and stored depth and lists exactly the
\* qualifying URLs of the page, each once; a crawl step whose fetch fails
\* appends none; no step changes a snapshot that exists
C22_OneSnapshotPerCrawledPage ==
  [][ /\ CrawlStepSucceeded =>
           LET snap == source_collection'[Len(source_collection')]
           IN /\ Len(source_collection') = Len(source_collection) + 1
              /\ snap.source_url = link_doc'[P].link
              /\ snap.depth = links_collection[link_doc'[P]._id].depth
              /\ Range(snap.uniqueLinks) = Qualifying
              /\ Len(snap.uniqueLinks) = Cardinality(Qualifying)
      /\ (CrawlStepMade /\ fetched'[P] # "ok") =>
           source_collection' = source_collection
      /\ Len(source_collection') >= Len(source_collection)
      /\ SubSeq(source_collection', 1, Len(source_collection)) = source_collection
    ]_vars

\* a page with two anchors to one URL was crawled after another page: its
\* snapshot, the second, lists the URL once
C22_TwoAnchorsOneElement ==
  /\ Crawling /\ steps[P] >= 1 /\ fetched[P] = "ok"
  /\ all_links[P] = <<BlogUrl, BlogUrl>>
  /\ Len(source_collection) = 2
  /\ source_collection[2].uniqueLinks = <<BlogUrl>>
  /\ source_collection[2].depth = 1

\* C24: a crawl step whose fetch fails inserts no LinkEntry, no ContentTask
\* and no CrawlSnapshot, and changes no document but the candidate's
\* LinkEntry, of which link, depth and source stay
C24_FailedStepTouchesCandidateOnly ==
  [][ (CrawlStepMade /\ fetched'[P] # "ok") =>
        LET c == link_doc'[P]._id
        IN /\ DOMAIN links_collection' = DOMAIN links_collection
           /\ \A i \in DOMAIN links_collection \ {c} :
                links_collection'[i] = links_collection[i]
           /\ links_collection'[c].link = links_collection[c].link
           /\ links_collection'[c].depth = links_collection[c].depth
           /\ links_collection'[c].source_url = links_collection[c].source_url
           /\ processed_collection' = processed_collection
           /\ source_collection' = source_collection
           /\ content_collection' = content_collection ]_vars

\* the fetch of a discovered page without a text hint failed: the page has
\* no ContentTask, while the queue holds tasks of other pages
C24_FailedPageWithoutTask ==
  /\ Crawling /\ steps[P] >= 1 /\ fetched[P] = "request_error"
  /\ link_doc[P].depth = 1
  /\ links_collection[link_doc[P]._id].error # NoError
  /\ TasksOf(link_doc[P].link) = {}
  /\ Len(processed_collection) >= 1
  /\ Len(source_collection) = 1

\* C25: under requests served one after the other a non-empty frontier
\* stays non-empty and a seed is inserted only into an empty frontier, so
\* at most one entry has depth 0; and in a state where the frontier is
\* non-empty with every entry crawled, no step of a /recursive-crawl
\* request, with or without a URL, changes a collection
C25_FrontierStaysSeededOnce ==
  [][ /\ Len(links_collection) >= 1 => Len(links_collection') >= 1
      /\ \A i \in NewIds(links_collection, links_collection') :
           links_collection'[i].depth = 0 => Len(links_collection) = 0
      /\ \A i, j \in DOMAIN links_collection' :
           (links_collection'[i].depth = 0 /\ links_collection'[j].depth = 0) => i = j
      /\ (Len(links_collection) >= 1 /\ NotCrawled(links_collection) = {}) =>
           collections' = collections ]_vars

\* the fetch of the seed failed, and a later request with another valid URL
\* was answered 'no more links'
C25_DrainedFrontierIgnoresSeed ==
  /\ Crawling /\ pc[P] = "done" /\ response[P].status = "info"
  /\ request[P].url = BlogUrl
  /\ Len(links_collection) = 1
  /\ links_collection[1].link = PlainUrl
  /\ links_collection[1].error # NoError

InPalLoop(p) ==
  handler[p] = "process_all_links" /\ pc[p] \in {"scrape", "mark_processed"}
ListIds(p) == {unprocessed_links[p][k]._id : k \in DOMAIN unprocessed_links[p]}
Pending(pcoll) == {j \in DOMAIN pcoll : pcoll[j].is_processed = FALSE}

\* C23: a /process-all-links run takes as its list exactly the tasks pending
\* when it reads them; a task inserted while a run is in its loop is pending
\* and not in the run's list; a step of a run marks and scrapes no task but
\* the element of its list it is at; and the run returns with its list
\* gone through, so that the tasks inserted meanwhile are still pending and
\* unscraped unless another run took them
C23_RunFetchesItsListOnly ==
  [][ /\ (\E j \in DOMAIN processed_collection :
             processed_collection'[j] # processed_collection[j]) =>
           \E q \in Procs : InPalLoop(q)
      /\ \A p \in Procs :
           /\ (pc[p] = "find_pending" /\ pc'[p] = "scrape") =>
                ListIds(p)' = Pending(processed_collection)
           /\ InPalLoop(p) =>
                \A j \in NewIds(processed_collection, processed_collection') :
                  j \notin ListIds(p) /\ j \in Pending(processed_collection')
           /\ (InPalLoop(p) /\ link_index'[p] # link_index[p]) =>
                \A j \in DOMAIN processed_collection :
                  processed_collection'[j] # processed_collection[j] =>
                    j = unprocessed_links[p][link_index[p]]._id
           /\ (pc[p] = "scrape" /\ pc'[p] = "mark_processed") =>
                /\ Len(content_collection') = Len(content_collection) + 1
                /\ content_collection'[Len(content_collection')].link_id
                     = unprocessed_links[p][link_index[p]]._id
           /\ (InPalLoop(p) /\ pc'[p] = "done") =>
                /\ \A j \in ListIds(p) : j \notin Pending(processed_collection)
                /\ results'[p].processed = Len(unprocessed_links[p])
    ]_vars

\* a run has returned while a /recursive-crawl request is being served on
\* the other thread: a task that was not in the run's list, inserted after
\* the run had read it, is pending and unscraped
C23_TaskInsertedMidRunPending ==
  \E p \in Procs, q \in Procs :
    /\ handler[p] = "process_all_links" /\ pc[p] = "done" /\ results[p].reported
    /\ handler[q] = "recursive_crawl"
    /\ ListIds(p) # {}
    /\ \E j \in Pending(processed_collection) \ ListIds(p) :
         /\ processed_collection[j].source_url = link_doc[q].link
         /\ \A d \in DOMAIN content_collection : content_collection[d].link_id # j

\* C26 as claimed: no ContentTask has more than one ScrapedDocument, and no
\* run fetches a task that is already processed, also when
\* /process-all-links requests overlap
C26_TaskFetchedAtMostOnce ==
  /\ \A j \in DOMAIN processed_collection : Cardinality(documents_of(j)) <= 1
  /\ \A p \in Procs :
       pc[p] = "mark_processed" =>
         unprocessed_links[p][link_index[p]]._id \in Pending(processed_collection)

====
